---------------------------- MODULE Spec2Model ----------------------------
(***************************************************************************)
(* Model of Dns::query (src/dns/mod.rs): parameter resolution, transport   *)
(* establishment, concurrent per-type dispatch, aggregation and result     *)
(* shaping of one `dns query` call.                                        *)
(***************************************************************************)
EXTENDS Integers, Sequences, FiniteSets, TLC

(***************************************************************************)
(* Bounds of the model.                                                    *)
(***************************************************************************)
\* longest list given to the `type` flag
MaxTypes == 2
\* longest name-server list of the system configuration
MaxNs == 2

\* port used for an explicit server given as a bare IP (mod.rs:72)
DefaultPort == 53

(***************************************************************************)
(* State.                                                                  *)
(***************************************************************************)
VARIABLES
    call,        \* the EvaluatedCall: positional name and the four flags
    systemConf,  \* what read_system_conf returned, Unread before it is called
    pc,          \* the statement Dns::query is at
    name,        \* the parsed Name
    protocol,    \* the optional protocol of the flag: "none", "Udp" or "Tcp"
    addr,        \* the resolved socket address
    addr_span,   \* whether the address carries the span of the server flag
    transport,   \* the resolved protocol (the second `protocol` binding)
    qtypes,      \* the record types to query
    dns_class,   \* the class to query
    session,     \* the client connection: "none", "open" or "failed"
    sent,        \* the requests handed to the client, in order
    futures,     \* the query futures under join_all
    completed,   \* indices of the resolved futures, in order of completion
    messages,    \* the collected messages
    result       \* what the call returned

vars ==
    <<call, systemConf, pc, name, protocol, addr, addr_span, transport,
      qtypes, dns_class, session, sent, futures, completed, messages, result>>

(***************************************************************************)
(* Values of the host boundary.                                            *)
(***************************************************************************)
\* Option<Value> of a flag
None == [some |-> FALSE, kind |-> "none", vals |-> << >>]
SomeString(v) == [some |-> TRUE, kind |-> "string", vals |-> <<v>>]
SomeList(vs) == [some |-> TRUE, kind |-> "list", vals |-> vs]

SeqsUpTo(S, n) == UNION {[1..k -> S] : k \in 0..n}

\* texts of IP literals, host names and ports a server string is made of
Ip4Texts == {"203.0.113.5"}
Ip6Texts == {"2001:db8::1"}
HostTexts == {"dns.example"}
PortTexts == {"53", "5353", "70000"}

\* decimal value of a port text
PortValue(p) ==
    CASE p = "53" -> 53
      [] p = "5353" -> 5353
      [] p = "70000" -> 70000
      [] OTHER -> -1

\* server strings, as the sequence of their lexical parts
ServerStrings ==
    {<<ip>> : ip \in Ip4Texts \cup Ip6Texts \cup HostTexts}
    \cup {<<ip, ":", p>> : ip \in Ip4Texts \cup HostTexts, p \in PortTexts}
    \cup {<<"[", ip, "]", ":", p>> : ip \in Ip6Texts, p \in {"53", "5353"}}
    \cup {<<ip, ":">> : ip \in Ip4Texts}

\* target names: text (labels between dots) or a list of binary labels;
\* "" is an empty label, "x64" stands for a label of 64 bytes
NameInputs ==
    { [kind |-> "string", labels |-> <<"example", "com">>],
      [kind |-> "string", labels |-> <<"example", "", "com">>],
      [kind |-> "list", labels |-> <<"example", "com">>],
      [kind |-> "list", labels |-> <<"x64", "com">>] }

ProtocolTexts == {"udp", "tcp", "sctp"}
TypeTexts == {"A", "AAAA", "BOGUS"}
ClassTexts == {"IN", "HS", "BOGUS"}

\* ProtoError kinds a failed query can carry
ErrKinds == {"Timeout", "Busy"}

NoAddr == [ip |-> "", port |-> 0]
SockAddr(ip, port) == [ip |-> ip, port |-> port]

\* name servers a system configuration can list
NsPool ==
    { [socket_addr |-> SockAddr("192.0.2.1", 53), protocol |-> "Udp"],
      [socket_addr |-> SockAddr("192.0.2.2", 53), protocol |-> "Tcp"],
      [socket_addr |-> SockAddr("192.0.2.3", 853), protocol |-> "Tls"] }

\* outcome of read_system_conf(): an error, or a configuration
SystemConfs ==
    {[tag |-> "err", name_servers |-> << >>]}
    \cup {[tag |-> "ok", name_servers |-> l] : l \in SeqsUpTo(NsPool, MaxNs)}
Unread == [tag |-> "unread", name_servers |-> << >>]

\* ResolverConfig::default(): the fixed public resolver group, UDP entry first
DefaultResolverConfig ==
    << [socket_addr |-> SockAddr("8.8.8.8", 53), protocol |-> "Udp"],
       [socket_addr |-> SockAddr("8.8.8.8", 53), protocol |-> "Tcp"] >>

(***************************************************************************)
(* Results.                                                                *)
(***************************************************************************)
Ok(v) == [ok |-> TRUE, val |-> v, err |-> ""]
Err(e) == [ok |-> FALSE, val |-> "", err |-> e]

Nothing == [tag |-> "nothing", items |-> << >>]
NoServer == [address |-> << >>, protocol |-> ""]
NoResult ==
    [status |-> "none", label |-> "", err |-> "", name_server |-> NoServer,
     message |-> Nothing]
LabeledError(label, err) ==
    [status |-> "err", label |-> label, err |-> err, name_server |-> NoServer,
     message |-> Nothing]


(***************************************************************************)
(* Parsers of the collaborators, by what they accept.                      *)
(***************************************************************************)
IsPort(p) == p \in PortTexts /\ PortValue(p) \in 0..65535

\* SocketAddr::from_str: "ip4:port" or "[ip6]:port", the port a u16
SocketAddrFromStr(s) ==
    IF Len(s) = 3 /\ s[1] \in Ip4Texts /\ s[2] = ":" /\ IsPort(s[3])
    THEN Ok(SockAddr(s[1], PortValue(s[3])))
    ELSE IF /\ Len(s) = 5 /\ s[1] = "[" /\ s[2] \in Ip6Texts
            /\ s[3] = "]" /\ s[4] = ":" /\ IsPort(s[5])
         THEN Ok(SockAddr(s[2], PortValue(s[5])))
         ELSE Err("AddrParseError")

\* IpAddr::from_str: a bare IPv4 or IPv6 literal
IpAddrFromStr(s) ==
    IF Len(s) = 1 /\ s[1] \in Ip4Texts \cup Ip6Texts
    THEN Ok(s[1])
    ELSE Err("AddrParseError")

\* a label is usable when it is not empty and at most 63 bytes long
ValidLabel(l) == l # "" /\ l # "x64"

\* Name::from_utf8
NameFromUtf8(labels) ==
    IF \A i \in 1..Len(labels) : ValidLabel(labels[i])
    THEN Ok([labels |-> labels])
    ELSE Err("Malformed label")

\* Name::from_labels
NameFromLabels(labels) ==
    IF \A i \in 1..Len(labels) : ValidLabel(labels[i])
    THEN Ok([labels |-> labels])
    ELSE Err("Label bytes exceed 63")

\* serde::Protocol::try_from
ProtocolTryFrom(v) ==
    CASE v = "udp" -> Ok("Udp")
      [] v = "tcp" -> Ok("Tcp")
      [] OTHER -> Err(v)

\* serde::RType::try_from
RTypeTryFrom(v) ==
    IF v \in {"A", "AAAA"} THEN Ok(v) ELSE Err(v)

\* serde::DNSClass::try_from
DNSClassTryFrom(v) ==
    IF v \in {"IN", "HS"} THEN Ok(v) ELSE Err(v)

\* Option::unwrap_or on the optional protocol
UnwrapOr(opt, default) == IF opt = "none" THEN default ELSE opt

\* SocketAddr's Display
AddrToString(a) ==
    IF a.ip \in Ip6Texts THEN <<"[", a.ip, "]:", a.port>>
    ELSE <<a.ip, ":", a.port>>

\* Protocol's Display
ProtocolToString(p) ==
    CASE p = "Udp" -> "udp"
      [] p = "Tcp" -> "tcp"
      [] OTHER -> "tls"

(***************************************************************************)
(* Pure steps of Dns::query.                                               *)
(***************************************************************************)
\* the statements in an order that connects before the class is validated
StagesConnectFirst ==
    <<"name", "protocol", "server", "type", "connect", "class", "dispatch",
      "await", "shape", "done">>

StageAfterConnectFirst(stage) ==
    LET i == CHOOSE k \in 1..Len(StagesConnectFirst) :
                 StagesConnectFirst[k] = stage
    IN StagesConnectFirst[i + 1]

\* the order of the statements of Dns::query
Stages ==
    <<"name", "protocol", "server", "type", "class", "connect", "dispatch",
      "await", "shape", "done">>

StageAfter(stage) ==
    LET i == CHOOSE k \in 1..Len(Stages) : Stages[k] = stage
    IN Stages[i + 1]

\* the positional argument parsed into a Name
ParseName(arg) ==
    IF arg.kind = "string" THEN NameFromUtf8(arg.labels)
    ELSE NameFromLabels(arg.labels)

\* the explicit server string without the bare-IP alternative
ParseServerNoBareIp(val) ==
    LET sa == SocketAddrFromStr(val)
    IN IF sa.ok THEN sa ELSE Err(sa.err)

\* the explicit server string: host:port, or else a bare IP on port 53
ParseServer(val) ==
    LET sa == SocketAddrFromStr(val)
        ip == IpAddrFromStr(val)
    IN IF sa.ok THEN sa
       ELSE IF ip.ok THEN Ok(SockAddr(ip.val, DefaultPort))
       ELSE Err(ip.err)

\* Result<(ResolverConfig, ResolverOpts), _>::unwrap_or_default
UnwrapOrDefault(conf) ==
    IF conf.tag = "ok" THEN conf.name_servers ELSE DefaultResolverConfig

\* the flag's protocol taking precedence over a listed name server too
SystemServerOverride(name_servers, proto) ==
    LET ns == IF Len(name_servers) >= 1 THEN name_servers[1]
              ELSE DefaultResolverConfig[1]
    IN <<ns.socket_addr, UnwrapOr(proto, ns.protocol)>>

\* address and transport when no server is given
SystemServer(name_servers, proto) ==
    IF Len(name_servers) >= 1
    THEN LET ns == name_servers[1]
         IN <<ns.socket_addr, ns.protocol>>
    ELSE LET ns == DefaultResolverConfig[1]
         IN <<ns.socket_addr, UnwrapOr(proto, ns.protocol)>>

\* transport paired with an explicit server
ExplicitTransport(proto) == UnwrapOr(proto, "Udp")

\* record types used when the `type` flag is absent
DefaultTypes == <<"AAAA", "A">>

\* keeping the values of the Ok results and dropping the Err ones
CollectOks(rs) ==
    LET oks == SelectSeq(rs, LAMBDA r : r.ok)
    IN Ok([i \in 1..Len(oks) |-> oks[i].val])

\* the last Err in position instead of the first
CollectResultsLastErr(rs) ==
    IF \E i \in 1..Len(rs) : ~rs[i].ok
    THEN LET i == CHOOSE k \in 1..Len(rs) :
                      ~rs[k].ok /\ \A j \in (k + 1)..Len(rs) : rs[j].ok
         IN Err(rs[i].err)
    ELSE Ok([i \in 1..Len(rs) |-> rs[i].val])

\* collect::<Result<Vec<_>, _>> over a sequence of Results: the first Err in
\* position, else all the values
CollectResults(rs) ==
    IF \E i \in 1..Len(rs) : ~rs[i].ok
    THEN LET i == CHOOSE k \in 1..Len(rs) :
                      ~rs[k].ok /\ \A j \in 1..(k - 1) : rs[j].ok
         IN Err(rs[i].err)
    ELSE Ok([i \in 1..Len(rs) |-> rs[i].val])

\* no default record types when the flag is absent
ResolveTypesNoDefault(flag) ==
    IF ~flag.some THEN Ok(<< >>)
    ELSE IF flag.kind = "list"
         THEN CollectResults([i \in 1..Len(flag.vals) |->
                                  RTypeTryFrom(flag.vals[i])])
         ELSE LET r == RTypeTryFrom(flag.vals[1])
              IN IF r.ok THEN Ok(<<r.val>>) ELSE r

\* the record types of the `type` flag
ResolveTypes(flag) ==
    IF ~flag.some THEN Ok(DefaultTypes)
    ELSE IF flag.kind = "list"
         THEN CollectResults([i \in 1..Len(flag.vals) |->
                                  RTypeTryFrom(flag.vals[i])])
         ELSE LET r == RTypeTryFrom(flag.vals[1])
              IN IF r.ok THEN Ok(<<r.val>>) ELSE r

\* the class of the `class` flag
ResolveClass(flag) ==
    IF flag.some THEN DNSClassTryFrom(flag.vals[1]) ELSE Ok("IN")

\* a query future: not yet resolved, or resolved to a Result
Pending == [state |-> "pending", res |-> Err("")]
Resolved(r) == [state |-> "resolved", res |-> r]

\* the request sent for one record type (ClientHandle::query)
Query(n, class, qtype) == [name |-> n, query_class |-> class, query_type |-> qtype]

\* the DnsResponse that answers a request
ResponseTo(q) == [queries |-> <<q>>, response_code |-> "NoError"]

\* serde::Message(&resp.into_inner()).into_value(call)
IntoValue(resp) == [tag |-> "record", items |-> resp.queries]

\* ready as soon as one future has resolved to an Err (try_join_all)
JoinReadyShortCircuit(futs) ==
    \/ \A i \in 1..Len(futs) : futs[i].state = "resolved"
    \/ \E i \in 1..Len(futs) : futs[i].state = "resolved" /\ ~futs[i].res.ok

\* join_all is ready when every future has resolved
JoinReady(futs) == \A i \in 1..Len(futs) : futs[i].state = "resolved"

\* the Results in the order the futures resolved (FuturesUnordered)
JoinAllByCompletion(futs) ==
    [i \in 1..Len(futs) |-> futs[completed[i]].res]

\* the output of join_all: one Result per future, in the order of the futures
JoinAll(futs) == [i \in 1..Len(futs) |-> futs[i].res]

\* the `message` field without the unwrapping of a single message
MessageFieldNoUnwrap(ms) ==
    CASE Len(ms) = 0 -> Nothing
      [] OTHER -> [tag |-> "list", items |-> ms]

\* the `message` field made of the collected messages
MessageField(ms) ==
    CASE Len(ms) = 0 -> Nothing
      [] Len(ms) = 1 -> ms[Len(ms)]
      [] OTHER -> [tag |-> "list", items |-> ms]

Flags(S) == {None} \cup {SomeString(v) : v \in S}

Init ==
    /\ call \in [name : NameInputs,
                 protocol : Flags(ProtocolTexts),
                 server : Flags(ServerStrings),
                 type : Flags(TypeTexts)
                        \cup {SomeList(l) : l \in SeqsUpTo(TypeTexts, MaxTypes)},
                 class : Flags(ClassTexts)]
    /\ systemConf = Unread
    /\ pc = "name"
    /\ name = [labels |-> << >>]
    /\ protocol = "none"
    /\ addr = NoAddr
    /\ addr_span = FALSE
    /\ transport = ""
    /\ qtypes = << >>
    /\ dns_class = ""
    /\ session = "none"
    /\ sent = << >>
    /\ futures = << >>
    /\ completed = << >>
    /\ messages = << >>
    /\ result = NoResult

\* `?` on an Err: the call returns the labeled error
Fail(label, err) ==
    /\ pc' = "failed"
    /\ result' = LabeledError(label, err)

(***************************************************************************)
(* Steps of Dns::query.                                                    *)
(***************************************************************************)
NameStep ==
    /\ pc = "name"
    /\ LET r == ParseName(call.name)
       IN IF r.ok
          THEN /\ name' = r.val
               /\ pc' = StageAfter("name")
               /\ UNCHANGED result
          ELSE /\ Fail("DnsNameParseError", r.err)
               /\ UNCHANGED name
    /\ UNCHANGED <<call, systemConf, protocol, addr, addr_span, transport,
                   qtypes, dns_class, session, sent, futures, completed,
                   messages>>

ProtocolStep ==
    /\ pc = "protocol"
    /\ IF ~call.protocol.some
       THEN /\ protocol' = "none"
            /\ pc' = StageAfter("protocol")
            /\ UNCHANGED result
       ELSE LET r == ProtocolTryFrom(call.protocol.vals[1])
            IN IF r.ok
               THEN /\ protocol' = r.val
                    /\ pc' = StageAfter("protocol")
                    /\ UNCHANGED result
               ELSE /\ Fail("UnsupportedProtocolError", r.err)
                    /\ UNCHANGED protocol
    /\ UNCHANGED <<call, systemConf, name, addr, addr_span, transport, qtypes,
                   dns_class, session, sent, futures, completed, messages>>

ServerStep ==
    /\ pc = "server"
    /\ IF call.server.some
       THEN LET r == ParseServer(call.server.vals[1])
            IN /\ IF r.ok
                  THEN /\ addr' = r.val
                       /\ addr_span' = TRUE
                       /\ transport' = ExplicitTransport(protocol)
                       /\ pc' = StageAfter("server")
                       /\ UNCHANGED result
                  ELSE /\ Fail("InvalidServerAddress", r.err)
                       /\ UNCHANGED <<addr, addr_span, transport>>
               /\ UNCHANGED systemConf
       ELSE \E conf \in SystemConfs :
                LET ns == SystemServer(UnwrapOrDefault(conf), protocol)
                IN /\ systemConf' = conf
                   /\ addr' = ns[1]
                   /\ addr_span' = FALSE
                   /\ transport' = ns[2]
                   /\ pc' = StageAfter("server")
                   /\ UNCHANGED result
    /\ UNCHANGED <<call, name, protocol, qtypes, dns_class, session, sent,
                   futures, completed, messages>>

TypeStep ==
    /\ pc = "type"
    /\ LET r == ResolveTypes(call.type)
       IN IF r.ok
          THEN /\ qtypes' = r.val
               /\ pc' = StageAfter("type")
               /\ UNCHANGED result
          ELSE /\ Fail("UnsupportedRecordTypeError", r.err)
               /\ UNCHANGED qtypes
    /\ UNCHANGED <<call, systemConf, name, protocol, addr, addr_span,
                   transport, dns_class, session, sent, futures, completed,
                   messages>>

ClassStep ==
    /\ pc = "class"
    /\ LET r == ResolveClass(call.class)
       IN IF r.ok
          THEN /\ dns_class' = r.val
               /\ pc' = StageAfter("class")
               /\ UNCHANGED result
          ELSE /\ Fail("UnsupportedClassError", r.err)
               /\ UNCHANGED dns_class
    /\ UNCHANGED <<call, systemConf, name, protocol, addr, addr_span,
                   transport, qtypes, session, sent, futures, completed,
                   messages>>

\* AsyncClient::connect / AsyncClient::new over the resolved transport
ConnectStep ==
    /\ pc = "connect"
    /\ transport \in {"Udp", "Tcp"}
    /\ session = "none"
    /\ \/ /\ session' = "open"
          /\ pc' = StageAfter("connect")
          /\ UNCHANGED result
       \/ /\ session' = "failed"
          /\ Fail("ConnectError", "ConnectionRefused")
    /\ UNCHANGED <<call, systemConf, name, protocol, addr, addr_span,
                   transport, qtypes, dns_class, sent, futures, completed,
                   messages>>

\* `_ => todo!()`: a resolved protocol other than Udp and Tcp panics
TodoStep ==
    /\ pc = "connect"
    /\ transport \notin {"Udp", "Tcp"}
    /\ pc' = "panicked"
    /\ UNCHANGED <<call, systemConf, name, protocol, addr, addr_span,
                   transport, qtypes, dns_class, session, sent, futures,
                   completed, messages, result>>

\* one client.query per record type, all handed to join_all
DispatchStep ==
    /\ pc = "dispatch"
    /\ sent' = [i \in 1..Len(qtypes) |-> Query(name, dns_class, qtypes[i])]
    /\ futures' = [i \in 1..Len(qtypes) |-> Pending]
    /\ pc' = StageAfter("dispatch")
    /\ UNCHANGED <<call, systemConf, name, protocol, addr, addr_span,
                   transport, qtypes, dns_class, session, completed, messages,
                   result>>

\* the i-th query future resolves, to its response or to an error
CompleteStep(i) ==
    /\ pc = "await"
    /\ futures[i].state = "pending"
    /\ \E r \in {Ok(ResponseTo(sent[i]))} \cup {Err(k) : k \in ErrKinds} :
           futures' = [futures EXCEPT ![i] = Resolved(r)]
    /\ completed' = Append(completed, i)
    /\ UNCHANGED <<call, systemConf, pc, name, protocol, addr, addr_span,
                   transport, qtypes, dns_class, session, sent, messages,
                   result>>

\* the join_all await returns; the Results are collected and converted
CollectStep ==
    /\ pc = "await"
    /\ JoinReady(futures)
    /\ LET r == CollectResults(JoinAll(futures))
       IN IF r.ok
          THEN /\ messages' = [i \in 1..Len(r.val) |-> IntoValue(r.val[i])]
               /\ pc' = StageAfter("await")
               /\ UNCHANGED result
          ELSE /\ Fail("DNSResponseError", r.err)
               /\ UNCHANGED messages
    /\ UNCHANGED <<call, systemConf, name, protocol, addr, addr_span,
                   transport, qtypes, dns_class, session, sent, futures,
                   completed>>

\* the result record is built and returned; `messages` is consumed
ShapeStep ==
    /\ pc = "shape"
    /\ result' = [status |-> "ok", label |-> "", err |-> "",
                  name_server |-> [address |-> AddrToString(addr),
                                   protocol |-> ProtocolToString(transport)],
                  message |-> MessageField(messages)]
    /\ messages' = << >>
    /\ pc' = StageAfter("shape")
    /\ UNCHANGED <<call, systemConf, name, protocol, addr, addr_span,
                   transport, qtypes, dns_class, session, sent, futures,
                   completed>>

Next ==
    \/ NameStep
    \/ ProtocolStep
    \/ ServerStep
    \/ TypeStep
    \/ ClassStep
    \/ ConnectStep
    \/ TodoStep
    \/ DispatchStep
    \/ \E i \in 1..Len(futures) : CompleteStep(i)
    \/ CollectStep
    \/ ShapeStep

Spec == Init /\ [][Next]_vars

(***************************************************************************)
(* Properties.                                                             *)
(***************************************************************************)
Failed(i) == futures[i].state = "resolved" /\ ~futures[i].res.ok
Succeeded(i) == futures[i].state = "resolved" /\ futures[i].res.ok
DnsFailed == pc = "failed" /\ result.label = "DNSResponseError"

\* the converted answer to each requested type, in request order
ExpectedMessages ==
    [i \in 1..Len(qtypes) |->
        [tag |-> "record",
         items |-> <<[name |-> name, query_class |-> dns_class,
                      query_type |-> qtypes[i]]>>]]

\* C1: when all queries succeed, the collected messages are one per requested
\* type, the i-th the answer to the i-th type, whatever the completion order;
\* a returned list of two or more messages is that sequence.
C1_RequestOrder ==
    /\ pc = "shape" => messages = ExpectedMessages
    /\ (pc = "done" /\ Len(qtypes) >= 2) =>
           /\ result.message.tag = "list"
           /\ result.message.items = ExpectedMessages

C1_Witness ==
    /\ pc = "done"
    /\ ~call.type.some
    /\ qtypes = <<"AAAA", "A">>
    /\ completed = <<2, 1>>
    /\ result.status = "ok"

\* C2: once the aggregate await has returned with at least one failed query,
\* the call has failed with DNSResponseError and carries no message; a call
\* that returns a result has no failed query.
C2_AllOrNothing ==
    (pc \in {"shape", "done", "failed"} /\ \E i \in 1..Len(futures) : Failed(i))
        => /\ DnsFailed
           /\ result.status = "err"
           /\ result.message = Nothing
           /\ messages = << >>

C2_Witness ==
    /\ DnsFailed
    /\ Len(futures) = 2
    /\ Succeeded(1)
    /\ Failed(2)
    /\ completed = <<2, 1>>

\* the failed query that resolved first in time
FirstFailedInTime ==
    completed[CHOOSE k \in 1..Len(completed) :
                  /\ Failed(completed[k])
                  /\ \A j \in 1..(k - 1) : ~Failed(completed[j])]

\* the failed query that comes first in the request
FirstFailedInPosition ==
    CHOOSE i \in 1..Len(futures) :
        Failed(i) /\ \A j \in 1..(i - 1) : ~Failed(j)

\* C3 (as claimed): the DNSResponseError carries the error of the query whose
\* failure was observed first in time.
C3_FirstObservedInTime ==
    DnsFailed => result.err = futures[FirstFailedInTime].res.err

\* C3 (amended): the DNSResponseError carries the error of the failed query
\* that comes first in the request's type sequence, whatever the order in
\* which the queries completed.
C3_FirstInPosition ==
    DnsFailed => result.err = futures[FirstFailedInPosition].res.err

C3_Witness ==
    /\ DnsFailed
    /\ Len(futures) = 2
    /\ Failed(1) /\ futures[1].res.err = "Timeout"
    /\ Failed(2) /\ futures[2].res.err = "Busy"
    /\ completed = <<2, 1>>
    /\ result.err = "Timeout"

\* the transport asked for by the protocol flag, "none" when absent
RequestedTransport ==
    CASE call.protocol = SomeString("udp") -> "Udp"
      [] call.protocol = SomeString("tcp") -> "Tcp"
      [] OTHER -> "none"

C5_DefaultFallback ==
    (/\ ~call.server.some
     /\ \/ systemConf.tag = "err"
        \/ systemConf.tag = "ok" /\ systemConf.name_servers = << >>)
        => /\ addr = DefaultResolverConfig[1].socket_addr
           /\ transport = IF RequestedTransport # "none"
                          THEN RequestedTransport
                          ELSE DefaultResolverConfig[1].protocol

\* server strings of the form host:port and bare IPs
HostPortStrings ==
    {<<ip, ":", p>> : ip \in Ip4Texts, p \in {"53", "5353"}}
    \cup {<<"[", ip, "]", ":", p>> : ip \in Ip6Texts, p \in {"53", "5353"}}
BareIpStrings == {<<ip>> : ip \in Ip4Texts \cup Ip6Texts}

\* the call got past the name and the protocol flag
ServerResolved ==
    /\ pc \notin {"name", "protocol", "server"}
    /\ result.label \notin {"DnsNameParseError", "UnsupportedProtocolError"}

\* C6: with an explicit server string the system configuration is never
\* read; host:port gives that address and port, a bare IP gives that IP on
\* port 53, anything else fails with InvalidServerAddress; the transport is
\* the requested one, else UDP.
C6_ExplicitServer ==
    call.server.some =>
        /\ systemConf = Unread
        /\ ServerResolved =>
             LET s == call.server.vals[1]
                 t == IF RequestedTransport # "none" THEN RequestedTransport
                      ELSE "Udp"
             IN CASE s \in HostPortStrings ->
                       /\ addr.ip = IF Len(s) = 3 THEN s[1] ELSE s[2]
                       /\ addr.port = IF s[Len(s)] = "53" THEN 53 ELSE 5353
                       /\ transport = t
                  [] s \in BareIpStrings ->
                       /\ addr = [ip |-> s[1], port |-> 53]
                       /\ transport = t
                  [] OTHER ->
                       /\ pc = "failed"
                       /\ result.label = "InvalidServerAddress"
                       /\ addr = NoAddr

C6_Witness ==
    /\ call.server = SomeString(<<"203.0.113.5">>)
    /\ ~call.protocol.some
    /\ addr = [ip |-> "203.0.113.5", port |-> 53]
    /\ transport = "Udp"
    /\ result.status = "ok"
    /\ result.name_server.address = <<"203.0.113.5", ":", 53>>

ValidationLabels ==
    {"DnsNameParseError", "UnsupportedProtocolError", "InvalidServerAddress",
     "UnsupportedRecordTypeError", "UnsupportedClassError"}

\* C7: a call that ends in an input-validation error has opened no session
\* and sent no query.
C7_ValidationBeforeIO ==
    result.label \in ValidationLabels =>
        /\ session = "none"
        /\ sent = << >>
        /\ futures = << >>

C7_Witness ==
    /\ pc = "failed"
    /\ result.label = "UnsupportedClassError"
    /\ call.type = SomeList(<<"A", "AAAA">>)
    /\ session = "none"

\* C8: the message field of a result is fixed by the number of collected
\* messages: none gives the absent marker, one gives that bare message, two
\* or more give the whole sequence in order.
C8_Collapse ==
    [][(pc = "shape" /\ pc' = "done") =>
          /\ result'.status = "ok"
          /\ Len(messages) = 0 => result'.message = Nothing
          /\ Len(messages) = 1 => result'.message = messages[1]
          /\ Len(messages) >= 2 =>
                 /\ result'.message.tag = "list"
                 /\ result'.message.items = messages]_vars

C8_Witness ==
    /\ pc = "done"
    /\ call.type = SomeList(<<"A">>)
    /\ result.message.tag = "record"
    /\ result.message = ExpectedMessages[1]

\* the call got to the dispatch of the queries
ReachedDispatch == session = "open"

TypesNonEmpty ==
    /\ Len(qtypes) >= 1
    /\ pc # "dispatch" => Len(sent) >= 1
    /\ pc = "done" => result.message # Nothing

\* C9 (as claimed): a call that reaches dispatch has a non-empty sequence of
\* record types, issues at least one query and never returns the absent
\* marker, for every accepted value of the type flag.
C9_TypesNonEmpty == ReachedDispatch => TypesNonEmpty

\* C9 (amended): the same for every accepted value of the type flag other
\* than the empty list; with the empty list the sequence is empty, no query
\* is issued and the call returns the absent marker.
C9_TypesNonEmptyUnlessEmptyList ==
    ReachedDispatch =>
        IF call.type = SomeList(<< >>)
        THEN /\ qtypes = << >>
             /\ sent = << >>
             /\ pc = "done" => result.message = Nothing
        ELSE TypesNonEmpty

C9_Witness ==
    /\ pc = "done"
    /\ call.type = SomeList(<< >>)
    /\ result.status = "ok"
    /\ result.message = Nothing

\* C10 (as claimed): once one query has failed the aggregate await returns
\* without waiting for the queries still in flight.
C10_ShortCircuit ==
    (pc = "await" /\ \E i \in 1..Len(futures) : Failed(i))
        => ENABLED CollectStep

\* C10 (amended): a failed query does not end the aggregate await; the call
\* returns DNSResponseError only after every query of the request has
\* completed, so no query is in flight when the call has returned.
C10_WaitsForAll ==
    pc \in {"shape", "done", "failed"} =>
        \A i \in 1..Len(futures) : futures[i].state = "resolved"

C10_Witness ==
    /\ DnsFailed
    /\ Len(futures) = 2
    /\ completed = <<1, 2>>
    /\ Failed(1)
    /\ Succeeded(2)

=============================================================================
